---- MODULE Spec2Model ----
(***************************************************************************)
(* Servo controller of the Romi arm (arduino_slave.ino, the variant with   *)
(* anti-jitter filtering and static detection, lines 210-747).             *)
(*                                                                         *)
(* One Loop step is one whole iteration of loop(): updateBuffer(), the     *)
(* servo handler with every function it calls, finalizeWrites().  The host *)
(* writes command fields of the I2C buffer between two iterations.         *)
(*                                                                         *)
(* Time.  The code stores millis() timestamps (lastLiftChange,             *)
(* lastServoCommandTime) and only ever uses them in a difference           *)
(* millis() - stamp compared with a constant.  The model stores that       *)
(* difference: xxxAge is millis() - xxx, saturated just above the largest  *)
(* constant it is compared with.  "stamp = currentTime" is "age = 0", and  *)
(* a stamp left alone is an age that grows by the time that passed.        *)
(***************************************************************************)
EXTENDS Integers, FiniteSets, Sequences, TLC

----------------------------------------------------------------------------
(* Program constants *)

LIFT_MIN == 1000
LIFT_MAX == 1630
LIFT_MID == 1550
TILT_MIN == 1515
TILT_MAX == 1900
TILT_MID == 1700
GRIPPER_MIN == 500
GRIPPER_MAX == 2400

NONE == 0
HOME == 1
HOLD == 2
LIFT == 3
GRIP == 4
CAPTURE == 5

PWM_DEADZONE == 10
PWM_FILTER_ALPHA == 3
SERVO_UPDATE_MIN_INTERVAL == 20
STATIC_THRESHOLD == 3
STATIC_TIMEOUT == 300

Channels == {"lift", "tilt", "gripper"}

MinBound(c) == CASE c = "lift" -> LIFT_MIN [] c = "tilt" -> TILT_MIN [] OTHER -> GRIPPER_MIN
MaxBound(c) == CASE c = "lift" -> LIFT_MAX [] c = "tilt" -> TILT_MAX [] OTHER -> GRIPPER_MAX

----------------------------------------------------------------------------
(* Bounds of the model *)

\* The host writes at most this many buffer fields in one behaviour.
MaxHostWrites == 3
\* The same for the scenario with one preset and one raw target.
MaxScenarioWrites == 5
\* The same for the host of the convergence check.
MaxLiveWrites == 3
\* The same for the host that writes presets while the servos are disabled.
MaxPresetWrites == 5
\* The same for the host that only sends raw gripper targets.
MaxRawWrites == 4
\* The same for the host of the loop() that runs call by call.
MaxStepWrites == 3
\* Play requests of the host, and its writes of servoEnable in between.
MaxPlayRequests == 3
MaxBuzzerWrites == 2
\* Calls of setUserID, motors/0,0 requests of togglePause in flight, and
\* pending steps of preset sequences.
MaxSetUser == 1
MaxPauseRequests == 1
MaxSequenceTimers == 2
\* Milliseconds that pass between two iterations of loop().
DtSet == {0, 310}
\* Raw targets the host writes: at the upper bound, just above it, less than
\* the deadzone below it (lift); below the lower bound (tilt); the two values
\* of the example of the specification (gripper).
RawValues(c) ==
    CASE c = "lift" -> {1625, 1630, 1631}
      [] c = "tilt" -> {1514}
      [] OTHER      -> {505, 2330}

\* Preset codes the host writes: NONE, a preset that leaves the gripper alone
\* (LIFT), one that sets all three servos (GRIP), and 6 for every code the
\* switch of moveToPosition has no case for.
PresetCodes == {NONE, LIFT, GRIP, 6}

----------------------------------------------------------------------------
(* Arithmetic of the target (ATmega32U4: int and unsigned int are 16 bit) *)

\* Arduino.h: #define abs(x) ((x)>0?(x):-(x)), here on int operands.
abs(x) == IF x > 0 THEN x ELSE -x

\* The same macro on uint16_t operands: a - b is computed modulo 2^16 and
\* stays unsigned, and so does the negation in the macro's else branch.
absDiffU16(a, b) ==
    LET d == (a - b) % 65536
    IN  IF d > 0 THEN d ELSE (0 - d) % 65536

AgeCap == STATIC_TIMEOUT + 1

\* Values of millis() - lastServoCommandTime at which the filter pass is
\* tried: just written, one short of the minimum interval, the interval, more.
RateAges == {0, SERVO_UPDATE_MIN_INTERVAL - 1, SERVO_UPDATE_MIN_INTERVAL, AgeCap}

Elapse(age, dt) == IF age + dt > AgeCap THEN AgeCap ELSE age + dt

----------------------------------------------------------------------------
(* State *)

VARIABLES
    buffer,               \* slave.buffer: servoPosition, servoEnable, pwm[c]
    servosAttached,
    currentPosition,      \* the active preset code
    currentPulse,         \* currentLiftPulse, currentTiltPulse, currentGripperPulse
    filteredPulse,
    targetPulse,
    lastPulse,            \* last value written to the servo
    lastChangeAge,        \* millis() - lastLiftChange, ...
    isStatic,
    lastServoCommandAge,  \* millis() - lastServoCommandTime
    lastPWM,              \* statics of handlePWMControl
    lastCheckedPWM,       \* statics of handleServoControl
    lastCheckedPosition,
    ev,                   \* what the last iteration of loop() did
    hostWrote,            \* buffer fields the host wrote since the last updateBuffer()
    saved,                \* targets and filtered positions at the last disable
    hostWrites,           \* number of host writes so far
    pc,                   \* the call of loop() that runs next
    calls,                \* the calls of this iteration of loop() so far
    buzz,                 \* the buzzer, playNotes and the static of handleBuzzer
    client                \* the browser client: globals, timers and requests

vars == <<buffer, servosAttached, currentPosition, currentPulse, filteredPulse,
          targetPulse, lastPulse, lastChangeAge, isStatic, lastServoCommandAge,
          lastPWM, lastCheckedPWM, lastCheckedPosition, ev, hostWrote,
          saved, hostWrites, pc, calls, buzz, client>>

\* The state outside the servo handling.
others == <<buzz, client>>

\* The code calls moveToPosition with this code in an iteration that applies
\* no preset.
NoMove == 0 - 1

\* The record of an iteration that starts from state s.
\*   ingested           the buffer as updateBuffer() delivered it
\*   attached, active   servosAttached and currentPosition at that moment
\*   accepted[c]        handlePWMControl took buffer.pwm[c] as the new target
\*   moved              argument of moveToPosition (NoMove: not called)
\*   wrote[c]           writeMicroseconds was called on servo c
\*   control            handlePWMControl was reached
\*   filter             the filter pass got past its rate limit
NoEvents(s) ==
    [ingested |-> s.buffer,
     attached |-> s.servosAttached,
     active   |-> s.currentPosition,
     accepted |-> [c \in Channels |-> FALSE],
     moved    |-> NoMove,
     wrote    |-> [c \in Channels |-> FALSE],
     control  |-> FALSE,
     filter   |-> FALSE]

\* The body of loop(), call by call.
LoopCalls ==
    <<"updateBuffer", "debugPrint", "updateSensorData", "controlHardware",
      "handleServoControl", "handleBuzzer", "updateEncoders", "finalizeWrites">>

\* The calls of loop() that read or write a field of slave.buffer, and those
\* that write one.
BufferAccess ==
    {"updateSensorData", "controlHardware", "handleServoControl",
     "handleBuzzer", "updateEncoders"}

BufferWrite ==
    {"updateSensorData", "handleServoControl", "handleBuzzer", "updateEncoders"}

\* No call of the iteration has run.
\*   ingests, finalizes   calls of updateBuffer() and of finalizeWrites()
\*   early                slave.buffer was accessed before updateBuffer()
\*   late                 slave.buffer was written after finalizeWrites()
NoCalls == [ingests |-> 0, finalizes |-> 0, early |-> FALSE, late |-> FALSE]

\* The buzzer after setup(), which plays the start-up melody.
\*   playNotes        slave.buffer.playNotes
\*   startedPlaying   the static of handleBuzzer
\*   isPlaying        buzzer.isPlaying()
\*   requests         play requests the host has written
\*   plays            calls of buzzer.play(slave.buffer.notes)
BuzzerInit ==
    [playNotes |-> FALSE, startedPlaying |-> FALSE, isPlaying |-> TRUE,
     requests |-> 0, plays |-> 0]

\* The movement keys of the keyboard module.
MovementKeys == {"w", "a", "s", "d"}

\* The browser client after init(): the page has loaded, init() has called
\* poll(), which has sent the first status request and, stop_motors being
\* set and no request in flight, the first motors/0,0.
\*   recent           Date.now() - last_motor_command_time < motor_command_min_interval
\*   motors           motors/ requests of setMotors in flight
\*   direct           motors/0,0 requests of togglePause in flight
\*   pollTimers       pending setTimeout(poll, 100): quiet counts the timers
\*                    since whose start no motor command passed the throttle
\*   statusRequests   status.json requests in flight, their .done is update_status
\*   statusFailed     a status.json request has failed
\*   userRequests     set_user_id requests in flight
\*   userTimers       pending status refreshes of setUserID
\*   users            calls of setUserID so far
\*   held             movement keys physically down
\*   textFocus        the focus is in a text input
\*   lastKey          what the keyboard module issued last: a move or a stop
\*   sequenceTimers   pending steps of executeSequence
\*   gamepad          isConnected;  currentV: currentVx, currentVy not both zero
\*   sent             the requests that the last handler sent
ClientInit ==
    [is_paused |-> FALSE, stop_motors |-> FALSE, block_set_motors |-> TRUE,
     mouse_dragging |-> FALSE, recent |-> TRUE, motors |-> 1, direct |-> 0,
     pollTimers |-> [quiet |-> 0, touched |-> 0], statusRequests |-> 1,
     statusFailed |-> FALSE, userRequests |-> 0, userTimers |-> 0, users |-> 0,
     keys_pressed |-> {}, held |-> {}, textFocus |-> FALSE, lastKey |-> "none",
     sequenceTimers |-> 0, gamepad |-> FALSE, currentV |-> FALSE,
     sent |-> {"status.json", "motors/0,0"}]

\* Nothing is saved: the servos were not disabled, or the host has written a
\* field other than servoEnable since.
NoSave == [valid |-> FALSE]

\* The program state as one record, so that each function of the sketch is an
\* operator from state to state.
State ==
    [buffer |-> buffer, servosAttached |-> servosAttached,
     currentPosition |-> currentPosition, currentPulse |-> currentPulse,
     filteredPulse |-> filteredPulse, targetPulse |-> targetPulse,
     lastPulse |-> lastPulse, lastChangeAge |-> lastChangeAge,
     isStatic |-> isStatic, lastServoCommandAge |-> lastServoCommandAge,
     lastPWM |-> lastPWM, lastCheckedPWM |-> lastCheckedPWM,
     lastCheckedPosition |-> lastCheckedPosition, ev |-> ev]

Init ==
    /\ buffer = [servoPosition |-> NONE, servoEnable |-> FALSE,
                 pwm |-> [c \in Channels |-> 0]]
    /\ servosAttached = FALSE
    /\ currentPosition = NONE
    /\ currentPulse = [c \in Channels |->
                         CASE c = "lift" -> LIFT_MID [] c = "tilt" -> TILT_MID
                           [] OTHER -> GRIPPER_MIN]
    /\ filteredPulse = currentPulse
    /\ targetPulse = currentPulse
    /\ lastPulse = currentPulse
    /\ lastChangeAge = [c \in Channels |-> 0]
    /\ isStatic = [c \in Channels |-> FALSE]
    /\ lastServoCommandAge = 0
    /\ lastPWM = [c \in Channels |-> 0]
    /\ lastCheckedPWM = [c \in Channels |-> 0]
    /\ lastCheckedPosition = NONE
    /\ ev = NoEvents([buffer |-> buffer, servosAttached |-> servosAttached,
                      currentPosition |-> currentPosition])
    /\ hostWrote = {}
    /\ saved = NoSave
    /\ hostWrites = 0
    /\ pc = LoopCalls[1]
    /\ calls = NoCalls
    /\ buzz = BuzzerInit
    /\ client = ClientInit

----------------------------------------------------------------------------
(* The sketch *)

\* handleServoEnable without the reset of the active preset code.
handleServoEnableKeepsPreset(s) ==
    IF s.buffer.servoEnable /\ ~s.servosAttached
      THEN [s EXCEPT !.servosAttached = TRUE]
    ELSE IF ~s.buffer.servoEnable /\ s.servosAttached
      THEN [s EXCEPT !.servosAttached = FALSE]
    ELSE s

handleServoEnable(s) ==
    IF s.buffer.servoEnable /\ ~s.servosAttached
      THEN [s EXCEPT !.servosAttached = TRUE]
    ELSE IF ~s.buffer.servoEnable /\ s.servosAttached
      THEN [s EXCEPT !.servosAttached = FALSE, !.currentPosition = NONE]
    ELSE s

\* The range test without its upper half.
InRangeNoUpper(c, v) == v >= MinBound(c)

\* The range test without its lower half.
InRangeNoLower(c, v) == v <= MaxBound(c)

\* The range test of handlePWMControl.
InRange(c, v) == v >= MinBound(c) /\ v <= MaxBound(c)

\* The deadzone test of handlePWMControl, on uint16_t operands.
ExceedsDeadzone(raw, last) == absDiffU16(raw, last) > PWM_DEADZONE

\* The condition with the deadzone test alone.
pwmAcceptsNoRange(s, c) == ExceedsDeadzone(s.buffer.pwm[c], s.lastPWM[c])

\* The condition of one of the three if statements of handlePWMControl.
pwmAccepts(s, c) ==
    /\ ExceedsDeadzone(s.buffer.pwm[c], s.lastPWM[c])
    /\ InRange(c, s.buffer.pwm[c])

handlePWMControlReturns(s) == \E c \in Channels : pwmAccepts(s, c)

handlePWMControl(s) ==
    LET acc == [c \in Channels |-> pwmAccepts(s, c)]
        s1  == [s EXCEPT
                  !.targetPulse = [c \in Channels |->
                        IF acc[c] THEN s.buffer.pwm[c] ELSE s.targetPulse[c]],
                  !.lastPWM = [c \in Channels |->
                        IF acc[c] THEN s.buffer.pwm[c] ELSE s.lastPWM[c]],
                  !.lastChangeAge = [c \in Channels |->
                        IF acc[c] THEN 0 ELSE s.lastChangeAge[c]],
                  !.isStatic = [c \in Channels |->
                        IF acc[c] THEN FALSE ELSE s.isStatic[c]],
                  !.ev.accepted = acc,
                  !.ev.control = TRUE]
    IN  IF \E c \in Channels : acc[c]
          THEN [s1 EXCEPT !.currentPosition = NONE,
                          !.buffer.servoPosition = NONE]
          ELSE s1

\* The presets of the first sketch in place of those of this one.
PresetTargetFirstSketch(position, c, old) ==
    CASE position = HOME /\ c = "lift" -> 1550
      [] position = HOME /\ c = "tilt" -> 1500
      [] position = HOME /\ c = "gripper" -> 500
      [] position = HOLD /\ c = "lift" -> 1550
      [] position = HOLD /\ c = "tilt" -> 1500
      [] position = HOLD /\ c = "gripper" -> 2330
      [] position = LIFT /\ c = "lift" -> 1000
      [] position = LIFT /\ c = "tilt" -> 1750
      [] position = LIFT /\ c = "gripper" -> 2330
      [] position \in {GRIP, CAPTURE} /\ c = "lift" -> 1900
      [] position \in {GRIP, CAPTURE} /\ c = "tilt" -> 1300
      [] position = GRIP /\ c = "gripper" -> 2330
      [] position = CAPTURE /\ c = "gripper" -> 500
      [] OTHER -> old

\* The switch of moveToPosition: the target of channel c after the call.
PresetTarget(position, c, old) ==
    CASE position = HOME ->
           (CASE c = "lift" -> 1446 [] c = "tilt" -> 1791 [] OTHER -> old)
      [] position = HOLD ->
           (CASE c = "lift" -> 1487 [] c = "tilt" -> 1789 [] OTHER -> old)
      [] position = LIFT ->
           (CASE c = "lift" -> LIFT_MIN [] c = "tilt" -> TILT_MAX [] OTHER -> old)
      [] position = GRIP ->
           (CASE c = "lift" -> 1536 [] c = "tilt" -> 1710 [] OTHER -> GRIPPER_MIN)
      [] position = CAPTURE ->
           (CASE c = "lift" -> 1506 [] c = "tilt" -> TILT_MIN [] OTHER -> GRIPPER_MIN)
      [] OTHER -> old

moveToPosition(s, position) ==
    IF ~s.servosAttached THEN s
    ELSE [s EXCEPT
            !.targetPulse = [c \in Channels |->
                               PresetTarget(position, c, s.targetPulse[c])],
            !.isStatic = [c \in Channels |-> FALSE],
            !.lastChangeAge = [c \in Channels |-> 0],
            !.filteredPulse = s.lastPulse,
            !.ev.moved = position]

syncPWMToBuffer(s) ==
    [s EXCEPT !.buffer.pwm = s.currentPulse]

\* The test on the preset code as handleServoControl of the first sketch has
\* it (line 155): any code that differs from the active one is applied.
handlePresetPositionsAnyCode(s) ==
    IF s.buffer.servoPosition # s.currentPosition
      THEN syncPWMToBuffer(
             [moveToPosition(s, s.buffer.servoPosition)
                EXCEPT !.currentPosition = s.buffer.servoPosition])
      ELSE s

handlePresetPositions(s) ==
    IF s.buffer.servoPosition # s.currentPosition /\ s.buffer.servoPosition # NONE
      THEN syncPWMToBuffer(
             [moveToPosition(s, s.buffer.servoPosition)
                EXCEPT !.currentPosition = s.buffer.servoPosition])
      ELSE s

\* C integer division (truncation toward zero).
Quot(a, b) == IF a >= 0 THEN a \div b ELSE -((-a) \div b)

\* The average with the weight of the old value as the divisor.
newFilteredOvershoot(filtered, target) ==
    Quot((PWM_FILTER_ALPHA - 1) * filtered + target, PWM_FILTER_ALPHA - 1)

\* The exponential moving average of updateFilteredServoPositions.
newFiltered(filtered, target) ==
    Quot((PWM_FILTER_ALPHA - 1) * filtered + target, PWM_FILTER_ALPHA)

\* The test with a threshold of zero.
closeToTargetExact(nf, target) == nf = target

\* The test that decides whether a channel is close to its target.
closeToTarget(nf, target) == abs(nf - target) <= STATIC_THRESHOLD

\* The block for one servo with a lock that leaves the filtered value where
\* the average put it.
filterChannelNoSnap(s, c) ==
    LET nf     == newFiltered(s.filteredPulse[c], s.targetPulse[c])
        close  == closeToTarget(nf, s.targetPulse[c])
        lock   == close /\ s.lastChangeAge[c] > STATIC_TIMEOUT
        write  == abs(nf - s.lastPulse[c]) > PWM_DEADZONE
    IN  [filtered |-> nf,
         age      |-> IF close THEN s.lastChangeAge[c] ELSE 0,
         static   |-> lock,
         last     |-> IF write THEN nf ELSE s.lastPulse[c],
         wrote    |-> write]

\* The block for one servo with the write decided before the lock: the value
\* compared and written is the average, also in the pass that locks.
filterChannelWriteBeforeLock(s, c) ==
    LET nf     == newFiltered(s.filteredPulse[c], s.targetPulse[c])
        close  == closeToTarget(nf, s.targetPulse[c])
        lock   == close /\ s.lastChangeAge[c] > STATIC_TIMEOUT
        write  == abs(nf - s.lastPulse[c]) > PWM_DEADZONE
    IN  [filtered |-> IF lock THEN s.targetPulse[c] ELSE nf,
         age      |-> IF close THEN s.lastChangeAge[c] ELSE 0,
         static   |-> lock,
         last     |-> IF write THEN nf ELSE s.lastPulse[c],
         wrote    |-> write]

\* The block for one servo with a write in every pass.
filterChannelWritesAlways(s, c) ==
    LET nf     == newFiltered(s.filteredPulse[c], s.targetPulse[c])
        close  == closeToTarget(nf, s.targetPulse[c])
        lock   == close /\ s.lastChangeAge[c] > STATIC_TIMEOUT
        f      == IF lock THEN s.targetPulse[c] ELSE nf
    IN  [filtered |-> f,
         age      |-> IF close THEN s.lastChangeAge[c] ELSE 0,
         static   |-> lock,
         last     |-> f,
         wrote    |-> TRUE]

\* The block of updateFilteredServoPositions for one servo that is not static:
\* the channel's new filtered value, lastChange age, static flag, last pulse
\* and whether writeMicroseconds was called.
filterChannel(s, c) ==
    LET nf     == newFiltered(s.filteredPulse[c], s.targetPulse[c])
        close  == closeToTarget(nf, s.targetPulse[c])
        lock   == close /\ s.lastChangeAge[c] > STATIC_TIMEOUT
        f      == IF lock THEN s.targetPulse[c] ELSE nf
        write  == abs(f - s.lastPulse[c]) > PWM_DEADZONE
    IN  [filtered |-> f,
         age      |-> IF close THEN s.lastChangeAge[c] ELSE 0,
         static   |-> lock,
         last     |-> IF write THEN f ELSE s.lastPulse[c],
         wrote    |-> write]

\* The filter pass without its minimum interval.
updateFilteredServoPositionsNoLimit(s) ==
    LET moving == {c \in Channels : ~s.isStatic[c]}
        r == [c \in moving |-> filterChannel(s, c)]
        needsUpdate == \E c \in moving : r[c].wrote
    IN  [s EXCEPT
           !.filteredPulse = [c \in Channels |->
                 IF c \in moving THEN r[c].filtered ELSE s.filteredPulse[c]],
           !.lastChangeAge = [c \in Channels |->
                 IF c \in moving THEN r[c].age ELSE s.lastChangeAge[c]],
           !.isStatic = [c \in Channels |->
                 IF c \in moving THEN r[c].static ELSE s.isStatic[c]],
           !.lastPulse = [c \in Channels |->
                 IF c \in moving THEN r[c].last ELSE s.lastPulse[c]],
           !.lastServoCommandAge =
                 IF needsUpdate THEN 0 ELSE s.lastServoCommandAge,
           !.ev.wrote = [c \in Channels |-> c \in moving /\ r[c].wrote],
           !.ev.filter = TRUE]

updateFilteredServoPositions(s) ==
    IF s.lastServoCommandAge < SERVO_UPDATE_MIN_INTERVAL THEN s
    ELSE
      LET moving == {c \in Channels : ~s.isStatic[c]}
          r == [c \in moving |-> filterChannel(s, c)]
          needsUpdate == \E c \in moving : r[c].wrote
      IN  [s EXCEPT
             !.filteredPulse = [c \in Channels |->
                   IF c \in moving THEN r[c].filtered ELSE s.filteredPulse[c]],
             !.lastChangeAge = [c \in Channels |->
                   IF c \in moving THEN r[c].age ELSE s.lastChangeAge[c]],
             !.isStatic = [c \in Channels |->
                   IF c \in moving THEN r[c].static ELSE s.isStatic[c]],
             !.lastPulse = [c \in Channels |->
                   IF c \in moving THEN r[c].last ELSE s.lastPulse[c]],
             !.lastServoCommandAge =
                   IF needsUpdate THEN 0 ELSE s.lastServoCommandAge,
             !.ev.wrote = [c \in Channels |-> c \in moving /\ r[c].wrote],
             !.ev.filter = TRUE]

\* F(x), with x evaluated once before F is applied (the sketch's functions
\* run one after the other on the state the previous one left).
Apply(F(_), x) == CHOOSE r \in {F(v) : v \in {x}} : TRUE

\* The pass with the preset handled before the raw targets.
servoControlPassPresetFirst(s1) ==
    IF ~s1.servosAttached THEN s1
    ELSE IF handlePWMControlReturns(handlePresetPositions(s1))
      THEN Apply(handlePWMControl, handlePresetPositions(s1))
    ELSE Apply(updateFilteredServoPositions,
               Apply(handlePWMControl, handlePresetPositions(s1)))

\* The pass that goes on to the presets and the filter after a raw value was
\* accepted.
servoControlPassNoReturn(s1) ==
    IF ~s1.servosAttached THEN s1
    ELSE Apply(updateFilteredServoPositions,
               Apply(handlePresetPositions, handlePWMControl(s1)))

\* The pass without the return for detached servos.
servoControlPassDetached(s1) ==
    IF handlePWMControlReturns(s1) THEN handlePWMControl(s1)
    ELSE Apply(updateFilteredServoPositions,
               Apply(handlePresetPositions, handlePWMControl(s1)))

\* The pass with the filter above the return for detached servos.
servoControlPassFilterDetached(s1) ==
    IF ~s1.servosAttached THEN updateFilteredServoPositions(s1)
    ELSE IF handlePWMControlReturns(s1) THEN handlePWMControl(s1)
    ELSE Apply(updateFilteredServoPositions,
               Apply(handlePresetPositions, handlePWMControl(s1)))

\* handleServoControl after its second call of handleServoEnable (lines
\* 484-495), on the state s1 that call left.
servoControlPass(s1) ==
    IF ~s1.servosAttached THEN s1
    ELSE IF handlePWMControlReturns(s1) THEN handlePWMControl(s1)
    ELSE Apply(updateFilteredServoPositions,
               Apply(handlePresetPositions, handlePWMControl(s1)))

\* The comparison of the buffer with the statics of the all-static branch.
newCommandDetected(s) ==
    \/ \E c \in Channels : s.buffer.pwm[c] # s.lastCheckedPWM[c]
    \/ s.buffer.servoPosition # s.lastCheckedPosition

\* The all-static branch of handleServoControl after its call of
\* handleServoEnable (lines 462-478), on the state s1 that call left.
staticBranch(s1) ==
    IF newCommandDetected(s1)
      THEN Apply(servoControlPass,
                 handleServoEnable(
                   [s1 EXCEPT !.lastCheckedPWM = s1.buffer.pwm,
                              !.lastCheckedPosition = s1.buffer.servoPosition]))
      ELSE s1

handleServoControl(s) ==
    IF s.servosAttached /\ \A c \in Channels : s.isStatic[c]
      THEN Apply(staticBranch, handleServoEnable(s))
      ELSE Apply(servoControlPass, handleServoEnable(s))

\* The time that passed since the previous iteration: every stored timestamp
\* is dt older.
elapse(s, dt) ==
    [s EXCEPT !.lastChangeAge = [c \in Channels |-> Elapse(s.lastChangeAge[c], dt)],
              !.lastServoCommandAge = Elapse(s.lastServoCommandAge, dt)]

----------------------------------------------------------------------------
(* Actions *)

\* Bookkeeping of the disable/enable round trip, for an iteration that ends in
\* state s.  The iteration that detaches the servos saves the targets and
\* filtered positions it started with, if the host wrote nothing but
\* servoEnable since the previous iteration and every servo was static.  The
\* saved values are kept while the servos stay detached and through the
\* iteration that attaches them again.
roundTrip(s) ==
    IF servosAttached /\ ~s.servosAttached
      THEN IF hostWrote = {"servoEnable"} /\ \A c \in Channels : isStatic[c]
             THEN [valid |-> TRUE, target |-> targetPulse,
                   filtered |-> filteredPulse]
             ELSE NoSave
    ELSE IF ~servosAttached THEN saved
    ELSE NoSave

\* The state an iteration of loop() leaves when it starts in state s, dt
\* milliseconds after the previous one.
iteration(s, dt) ==
    Apply(handleServoControl, [elapse(s, dt) EXCEPT !.ev = NoEvents(s)])

\* The servo handling of one iteration of loop(), dt milliseconds after the
\* previous one, on the buffer that updateBuffer() delivered.
runIteration(dt) ==
    \E s \in {iteration(State, dt)} :
        /\ buffer' = s.buffer
        /\ servosAttached' = s.servosAttached
        /\ currentPosition' = s.currentPosition
        /\ currentPulse' = s.currentPulse
        /\ filteredPulse' = s.filteredPulse
        /\ targetPulse' = s.targetPulse
        /\ lastPulse' = s.lastPulse
        /\ lastChangeAge' = s.lastChangeAge
        /\ isStatic' = s.isStatic
        /\ lastServoCommandAge' = s.lastServoCommandAge
        /\ lastPWM' = s.lastPWM
        /\ lastCheckedPWM' = s.lastCheckedPWM
        /\ lastCheckedPosition' = s.lastCheckedPosition
        /\ ev' = s.ev
        /\ hostWrote' = {}
        /\ saved' = roundTrip(s)
        /\ UNCHANGED hostWrites

\* One iteration of loop(), dt milliseconds after the previous one.
Loop(dt) ==
    /\ pc = LoopCalls[1]
    /\ runIteration(dt)
    /\ UNCHANGED <<pc, calls, others>>

\* loop() runs in the same millisecond as the previous iteration.
LoopSameMs == Loop(0)

\* loop() runs after millis() has advanced.
LoopAdvance == \E dt \in DtSet \ {0} : Loop(dt)

program == <<servosAttached, currentPosition, currentPulse, filteredPulse,
             targetPulse, lastPulse, lastChangeAge, isStatic,
             lastServoCommandAge, lastPWM, lastCheckedPWM, lastCheckedPosition,
             ev>>

\* An I2C write of the host that changes one field of the buffer, taken in by
\* the next updateBuffer().
HostWrite(max, field, newBuffer) ==
    /\ pc = LoopCalls[1]
    /\ hostWrites < max
    /\ newBuffer # buffer
    /\ buffer' = newBuffer
    /\ hostWrote' = hostWrote \cup {field}
    /\ saved' = IF field = "servoEnable" THEN saved ELSE NoSave
    /\ hostWrites' = hostWrites + 1
    /\ UNCHANGED <<program, pc, calls, others>>

\* The host writes the servoEnable byte.
HostSetEnable ==
    \E b \in BOOLEAN :
        HostWrite(MaxHostWrites, "servoEnable", [buffer EXCEPT !.servoEnable = b])

\* The host writes the servoPosition byte.
HostSetPosition ==
    \E p \in PresetCodes :
        HostWrite(MaxHostWrites, "servoPosition", [buffer EXCEPT !.servoPosition = p])

\* The host writes one of liftPWM, tiltPWM, gripperPWM.
HostSetPWM ==
    \E c \in Channels : \E v \in RawValues(c) :
        HostWrite(MaxHostWrites, c, [buffer EXCEPT !.pwm[c] = v])

\* The host of the scenario: it toggles servoEnable, asks for the preset LIFT
\* or for none, and sends the raw lift target that LIFT resolves to.
ScenarioSetEnable ==
    \E b \in BOOLEAN :
        HostWrite(MaxScenarioWrites, "servoEnable", [buffer EXCEPT !.servoEnable = b])

ScenarioSetPosition ==
    \E p \in {NONE, LIFT} :
        HostWrite(MaxScenarioWrites, "servoPosition", [buffer EXCEPT !.servoPosition = p])

ScenarioSetPWM ==
    HostWrite(MaxScenarioWrites, "lift", [buffer EXCEPT !.pwm["lift"] = LIFT_MIN])

Next == LoopSameMs \/ LoopAdvance \/ HostSetEnable \/ HostSetPosition \/ HostSetPWM

Spec == Init /\ [][Next]_vars

\* The host of the convergence check: it toggles servoEnable and sends the raw
\* targets of the example of the specification (gripper from 500 to 2330,
\* then 505) and the upper bound of the lift.
LiveSetEnable ==
    \E b \in BOOLEAN :
        HostWrite(MaxLiveWrites, "servoEnable", [buffer EXCEPT !.servoEnable = b])

LiveSetPWM ==
    \E c \in {"lift", "gripper"} :
        \E v \in (IF c = "lift" THEN {LIFT_MAX} ELSE {505, 2330}) :
            HostWrite(MaxLiveWrites, c, [buffer EXCEPT !.pwm[c] = v])

LiveNext ==
    LoopSameMs \/ LoopAdvance \/ LiveSetEnable \/ LiveSetPWM

\* loop() is called again and again, and millis() does not stand still.
LiveSpec == Init /\ [][LiveNext]_vars /\ WF_vars(LoopAdvance)

\* In the scenario millis() advances between any two iterations.
ScenarioNext ==
    LoopAdvance \/ ScenarioSetEnable \/ ScenarioSetPosition \/ ScenarioSetPWM

ScenarioSpec == Init /\ [][ScenarioNext]_vars

\* The host that works with presets: it toggles servoEnable, asks for the
\* presets LIFT and GRIP, and sends one raw gripper target.
PresetSetEnable ==
    \E b \in BOOLEAN :
        HostWrite(MaxPresetWrites, "servoEnable", [buffer EXCEPT !.servoEnable = b])

PresetSetPosition ==
    \E p \in {LIFT, GRIP} :
        HostWrite(MaxPresetWrites, "servoPosition", [buffer EXCEPT !.servoPosition = p])

PresetSetPWM ==
    HostWrite(MaxPresetWrites, "gripper", [buffer EXCEPT !.pwm["gripper"] = 2330])

PresetNext ==
    LoopAdvance \/ PresetSetEnable \/ PresetSetPosition \/ PresetSetPWM

PresetSpec == Init /\ [][PresetNext]_vars

\* The host that only sends raw targets: it toggles servoEnable and moves the
\* gripper between 505 and 2330.
RawSetEnable ==
    \E b \in BOOLEAN :
        HostWrite(MaxRawWrites, "servoEnable", [buffer EXCEPT !.servoEnable = b])

RawSetPWM ==
    \E v \in {505, 2330} :
        HostWrite(MaxRawWrites, "gripper", [buffer EXCEPT !.pwm["gripper"] = v])

RawNext == LoopAdvance \/ RawSetEnable \/ RawSetPWM

RawSpec == Init /\ [][RawNext]_vars

\* Play requests of the host of the buzzer, and its writes of servoEnable.
BuzzerSetEnable ==
    \E b \in BOOLEAN :
        HostWrite(MaxBuzzerWrites, "servoEnable", [buffer EXCEPT !.servoEnable = b])

\* handleBuzzer without the assignment startedPlaying = true.
handleBuzzerReplays(b, playing) ==
    IF b.playNotes /\ ~b.startedPlaying
      THEN [b EXCEPT !.isPlaying = playing, !.plays = @ + 1]
    ELSE IF b.startedPlaying /\ ~b.isPlaying
      THEN [b EXCEPT !.playNotes = FALSE, !.startedPlaying = FALSE]
    ELSE b

\* handleBuzzer; playing is what buzzer.isPlaying() returns after
\* buzzer.play(notes) (false for an empty tone string).
handleBuzzer(b, playing) ==
    IF b.playNotes /\ ~b.startedPlaying
      THEN [b EXCEPT !.startedPlaying = TRUE, !.isPlaying = playing,
                     !.plays = @ + 1]
    ELSE IF b.startedPlaying /\ ~b.isPlaying
      THEN [b EXCEPT !.playNotes = FALSE, !.startedPlaying = FALSE]
    ELSE b

\* The beep that handleServoEnable plays when it attaches or detaches the
\* servos, in an iteration from attach state was to attach state now.
servoBeep(b, was, now) ==
    IF was # now THEN [b EXCEPT !.isPlaying = TRUE] ELSE b

\* One iteration of loop() with its buzzer handling.
BuzzerLoop ==
    /\ pc = LoopCalls[1]
    /\ \E dt \in DtSet \ {0} : runIteration(dt)
    /\ \E playing \in BOOLEAN :
          buzz' = handleBuzzer(servoBeep(buzz, servosAttached, servosAttached'),
                               playing)
    /\ UNCHANGED <<pc, calls, client>>

\* The buzzer's timer interrupt ends the melody.
BuzzerFinish ==
    /\ buzz.isPlaying
    /\ buzz' = [buzz EXCEPT !.isPlaying = FALSE]
    /\ UNCHANGED <<buffer, program, hostWrote, saved, hostWrites, pc, calls, client>>

\* The host writes notes and playNotes = true; the controller has cleared the
\* previous request, or there was none.
BuzzerHostPlay ==
    /\ pc = LoopCalls[1]
    /\ ~buzz.playNotes
    /\ buzz.requests < MaxPlayRequests
    /\ buzz' = [buzz EXCEPT !.playNotes = TRUE, !.requests = @ + 1]
    /\ UNCHANGED <<buffer, program, hostWrote, saved, hostWrites, pc, calls, client>>

BuzzerNext == BuzzerLoop \/ BuzzerFinish \/ BuzzerHostPlay \/ BuzzerSetEnable

BuzzerSpec == Init /\ [][BuzzerNext]_vars

\* The call that runs after a call of loop() has returned: the next one of the
\* body, and the first one again after the last.
nextCallReturnEndsLoop(call) ==
    IF call \in {"handleServoControl", LoopCalls[Len(LoopCalls)]}
    THEN LoopCalls[1]
    ELSE LoopCalls[1 + CHOOSE i \in 1..Len(LoopCalls) : LoopCalls[i] = call]

nextCall(call) ==
    IF call = LoopCalls[Len(LoopCalls)]
    THEN LoopCalls[1]
    ELSE LoopCalls[1 + CHOOSE i \in 1..Len(LoopCalls) : LoopCalls[i] = call]

\* One call of loop() runs and returns to loop(), whatever path it took.
Call(call) ==
    /\ pc = call
    /\ UNCHANGED others
    /\ pc' = nextCall(call)
    /\ LET base == IF call = LoopCalls[1] THEN NoCalls ELSE calls
       IN  calls' =
             [ingests   |-> base.ingests + (IF call = "updateBuffer" THEN 1 ELSE 0),
              finalizes |-> base.finalizes + (IF call = "finalizeWrites" THEN 1 ELSE 0),
              early     |-> base.early \/ (call \in BufferAccess /\ base.ingests = 0),
              late      |-> base.late \/ (call \in BufferWrite /\ base.finalizes > 0)]

\* The calls that leave the servo state alone.
OtherCall(call) ==
    /\ Call(call)
    /\ UNCHANGED <<buffer, program, hostWrote, saved, hostWrites>>

StepUpdateBuffer == OtherCall("updateBuffer")

StepDebugPrint == OtherCall("debugPrint")

StepUpdateSensorData == OtherCall("updateSensorData")

StepControlHardware == OtherCall("controlHardware")

StepHandleServoControl ==
    /\ Call("handleServoControl")
    /\ \E dt \in DtSet \ {0} : runIteration(dt)

StepHandleBuzzer == OtherCall("handleBuzzer")

StepUpdateEncoders == OtherCall("updateEncoders")

StepFinalizeWrites == OtherCall("finalizeWrites")

\* The host of the call-by-call loop(): it toggles servoEnable, asks for the
\* preset LIFT and sends one raw gripper target; its writes reach the buffer
\* at the next updateBuffer().
StepSetEnable ==
    \E b \in BOOLEAN :
        HostWrite(MaxStepWrites, "servoEnable", [buffer EXCEPT !.servoEnable = b])

StepSetPosition ==
    HostWrite(MaxStepWrites, "servoPosition", [buffer EXCEPT !.servoPosition = LIFT])

StepSetPWM ==
    HostWrite(MaxStepWrites, "gripper", [buffer EXCEPT !.pwm["gripper"] = 2330])

StepNext ==
    \/ StepUpdateBuffer \/ StepDebugPrint \/ StepUpdateSensorData
    \/ StepControlHardware \/ StepHandleServoControl \/ StepHandleBuzzer
    \/ StepUpdateEncoders \/ StepFinalizeWrites
    \/ StepSetEnable \/ StepSetPosition \/ StepSetPWM

StepSpec == Init /\ [][StepNext]_vars

----------------------------------------------------------------------------
(* Properties *)

\* A step that is an iteration of loop() (the host's steps count its writes).
IsLoop == hostWrites' = hostWrites

\* C1: in every reachable state the filtered position of each of the three
\* channels lies within the bounds of that channel, whatever enable flips,
\* raw targets, preset codes and filter passes came before.
C1_FilteredWithinBounds ==
    \A c \in Channels :
        MinBound(c) <= filteredPulse[c] /\ filteredPulse[c] <= MaxBound(c)

\* The lift servo has settled on its upper bound and an iteration has seen a
\* raw lift target above the bound.
C1_Witness ==
    /\ ev.control
    /\ isStatic["lift"]
    /\ filteredPulse["lift"] = LIFT_MAX
    /\ ev.ingested.pwm["lift"] > LIFT_MAX

\* C4: in an iteration whose buffer holds a preset code that is neither NONE
\* nor the active one and a raw target that handlePWMControl accepts, only the
\* raw target is applied: moveToPosition is not called, each target is the
\* accepted raw value or what it was, and the active preset code and
\* buffer.servoPosition are NONE at the end.
C4_RawBeatsPreset ==
    [][(/\ IsLoop
        /\ buffer.servoPosition # NONE
        /\ buffer.servoPosition # currentPosition
        /\ ev'.control
        /\ \E c \in Channels : ev'.accepted[c])
       => (/\ ev'.moved = NoMove
           /\ currentPosition' = NONE
           /\ buffer'.servoPosition = NONE
           /\ \A c \in Channels :
                 targetPulse'[c] = IF ev'.accepted[c] THEN buffer.pwm[c]
                                                      ELSE targetPulse[c])]_vars

\* The last iteration took a raw target the host wrote while the buffer held
\* a preset code of the enum that was not the active one.
C4_Witness ==
    /\ ev.ingested.servoPosition \in {LIFT, GRIP}
    /\ ev.ingested.servoPosition # ev.active
    /\ \E c \in Channels : ev.accepted[c] /\ ev.ingested.pwm[c] \in RawValues(c)
    /\ ev.moved = NoMove
    /\ currentPosition = NONE

\* C7: in an iteration whose buffer holds preset code 0 moveToPosition is not
\* called, and a target changes only by taking a raw value that
\* handlePWMControl accepted, whatever the rest of the buffer and the active
\* preset are.
C7_NoneNeverMoves ==
    [][(IsLoop /\ buffer.servoPosition = NONE)
       => (/\ ev'.moved = NoMove
           /\ \A c \in Channels :
                 targetPulse'[c] # targetPulse[c]
                   => ev'.accepted[c] /\ targetPulse'[c] = buffer.pwm[c])]_vars

\* handlePresetPositions ran on preset code 0 while another preset was active.
C7_Witness ==
    /\ ev.control
    /\ \A c \in Channels : ~ev.accepted[c]
    /\ ev.ingested.servoPosition = NONE
    /\ ev.active = LIFT
    /\ currentPosition = LIFT

C10_DisabledIsFrozen ==
    [][(IsLoop /\ ~servosAttached /\ ~buffer.servoEnable)
       => UNCHANGED <<targetPulse, filteredPulse, isStatic, lastPulse, lastPWM,
                      currentPosition, buffer>>]_vars

\* An iteration has run detached on a buffer that holds a preset code and a
\* raw target handlePWMControl would accept.
C10_Witness ==
    /\ hostWrote = {}
    /\ ~ev.attached /\ ~ev.ingested.servoEnable /\ ~servosAttached
    /\ buffer.servoPosition \in {LIFT, GRIP}
    /\ \E c \in Channels : pwmAccepts(State, c)

\* C2: under fair execution of loop() with advancing time, once the host
\* writes nothing further the controller comes to stay in states in which, if
\* the servos are attached, every channel whose target is the raw value
\* handlePWMControl accepted last for it has filtered == target and isStatic,
\* for targets above and below the filtered value the channel starts from.
C2_ConvergesAndLocks ==
    <>[](servosAttached =>
           \A c \in Channels :
               targetPulse[c] = lastPWM[c]
                 => (isStatic[c] /\ filteredPulse[c] = targetPulse[c]))

\* The gripper has come down to the accepted raw target 505 and is locked.
C2_Witness ==
    /\ servosAttached
    /\ lastPWM["gripper"] = 505 /\ targetPulse["gripper"] = 505
    /\ filteredPulse["gripper"] = 505 /\ isStatic["gripper"]
    /\ lastPulse["gripper"] > 505

\* C3: when preset P (1..5) is the active preset and the host has written a raw
\* target on one channel, in bounds and more than the deadzone from the last
\* accepted value, then after the iteration the active preset code is NONE,
\* that channel's target is the raw value and the two other targets are what
\* P had made them.
C3_RawKeepsOtherPresetTargets ==
    [][(/\ IsLoop
        /\ servosAttached /\ buffer.servoEnable
        /\ currentPosition \in HOME..CAPTURE
        /\ buffer.servoPosition = currentPosition)
       => \A c \in Channels :
            (/\ hostWrote = {c}
             /\ InRange(c, buffer.pwm[c])
             /\ abs(buffer.pwm[c] - lastPWM[c]) > PWM_DEADZONE)
            => (/\ currentPosition' = NONE
                /\ targetPulse'[c] = buffer.pwm[c]
                /\ \A d \in Channels \ {c} : targetPulse'[d] = targetPulse[d])]_vars

\* C5: when the host has sent a raw target equal to the current target of a
\* static channel (no new preset code with it), the iteration writes nothing
\* to that servo, leaves the channel static and leaves its target as it is.
C5_ResendIsIdempotent ==
    [][(/\ IsLoop
        /\ servosAttached /\ buffer.servoEnable
        /\ buffer.servoPosition = currentPosition)
       => \A c \in Channels :
            (c \in hostWrote /\ buffer.pwm[c] = targetPulse[c] /\ isStatic[c])
            => (/\ ~ev'.wrote[c]
                /\ isStatic'[c]
                /\ targetPulse'[c] = targetPulse[c])]_vars

\* C6: after the iteration that attaches the servos again, every target and
\* every filtered position is what it was just before the servos were
\* detached, if the host has written nothing but servoEnable in between (and
\* every servo was static at the disable).
C6_RoundTripKeepsPositions ==
    (~ev.attached /\ servosAttached /\ saved.valid)
      => (targetPulse = saved.target /\ filteredPulse = saved.filtered)

\* C9: handlePWMControl accepts the raw value of a channel exactly if
\* |raw - lastAccepted| > PWM_DEADZONE and MIN <= raw <= MAX, for raw above and
\* below lastAccepted.
C9_AcceptanceIsAbsoluteDifference ==
    [][(IsLoop /\ ev'.control)
       => \A c \in Channels :
            ev'.accepted[c] <=> (/\ abs(buffer.pwm[c] - lastPWM[c]) > PWM_DEADZONE
                                 /\ InRange(c, buffer.pwm[c]))]_vars

\* C11: in the iteration that attaches the servos again, every raw value
\* in the buffer that handlePWMControl accepts becomes the target of its
\* channel, and a preset code 1..5 that the host wrote while the servos were
\* detached is applied by moveToPosition in that iteration if the host has
\* put no raw target into the buffer (each PWM field holds its initial 0 or
\* what the controller itself mirrored into it).
C11_DisabledCommandActsAtEnable ==
    [][(IsLoop /\ ~servosAttached /\ buffer.servoEnable)
       => /\ \A c \in Channels :
                pwmAccepts(State, c) => targetPulse'[c] = buffer.pwm[c]
          /\ (/\ "servoPosition" \in hostWrote
              /\ buffer.servoPosition \in HOME..CAPTURE
              /\ \A c \in Channels : buffer.pwm[c] \in {0, currentPulse[c]})
             => (/\ ev'.moved = buffer.servoPosition
                 /\ \A c \in Channels :
                       targetPulse'[c] =
                         PresetTarget(buffer.servoPosition, c, targetPulse[c]))]_vars

\* C12: right after handleServoEnable has handled the edge from detached to
\* attached, the servos are attached and for every channel the target and the
\* filtered position equal the last value sent to the servo.
C12_EnableEdgeStartsAtRest ==
    (~servosAttached /\ buffer.servoEnable)
      => LET s == handleServoEnable(State)
         IN  /\ s.servosAttached
             /\ \A c \in Channels : /\ s.targetPulse[c] = s.lastPulse[c]
                                    /\ s.filteredPulse[c] = s.lastPulse[c]

\* C13: the active preset code is NONE whenever the servos are detached, and
\* right after handleServoEnable has handled an edge in either direction.
C13_DetachedHasNoPreset ==
    /\ ~servosAttached => currentPosition = NONE
    /\ buffer.servoEnable # servosAttached
         => handleServoEnable(State).currentPosition = NONE

\* The servos have just been detached by an iteration that started with a
\* preset active.
C13_Witness ==
    /\ ~servosAttached
    /\ ev.attached
    /\ ev.active \in {LIFT, GRIP}
    /\ currentPosition = NONE

\* C14: when an iteration applies a preset code 1..5, the PWM fields of the
\* buffer after it equal the targets the preset resolved to.
C14_MirrorEqualsTargets ==
    [][(IsLoop /\ ev'.moved \in HOME..CAPTURE)
       => buffer'.pwm = targetPulse']_vars

\* C15: when an iteration has just applied preset P (1..5) and the host writes
\* nothing but a second request of P after the next iteration, the targets
\* after the iteration that handles the second request are the targets after
\* the first.
C15_PresetTwiceSameTargets ==
    (/\ servosAttached /\ buffer.servoEnable
     /\ ev.moved \in HOME..CAPTURE
     /\ hostWrote = {})
      => \A dt \in DtSet :
           LET s1 == iteration(State, dt)
               s2 == iteration([s1 EXCEPT !.buffer.servoPosition = ev.moved], dt)
           IN  s2.targetPulse = targetPulse

\* C16: while a preset 1..5 is the active preset and the host has written
\* nothing since the previous iteration, an iteration changes no target and
\* leaves the active preset code as it is.
C16_MirrorIsNoCommand ==
    [][(/\ IsLoop
        /\ servosAttached /\ buffer.servoEnable
        /\ currentPosition \in HOME..CAPTURE
        /\ hostWrote = {})
       => (targetPulse' = targetPulse /\ currentPosition' = currentPosition)]_vars

\* C17: an iteration that starts with the servos attached and every channel
\* static, on a buffer that holds a raw value handlePWMControl accepts or a
\* preset code that is neither NONE nor the active one, runs the full pass:
\* it reaches handlePWMControl, takes every acceptable raw value, and applies
\* the preset if no raw value was taken.
C17_StaticSkipLosesNoCommand ==
    [][(/\ IsLoop
        /\ servosAttached /\ buffer.servoEnable
        /\ \A c \in Channels : isStatic[c]
        /\ \/ \E c \in Channels : pwmAccepts(State, c)
           \/ /\ buffer.servoPosition # NONE
              /\ buffer.servoPosition # currentPosition)
       => (/\ ev'.control
           /\ \A c \in Channels : pwmAccepts(State, c) => ev'.accepted[c]
           /\ (\A c \in Channels : ~pwmAccepts(State, c))
                => ev'.moved = buffer.servoPosition)]_vars

C19_StaticChannelUntouched ==
    [][IsLoop => \A c \in Channels :
         (isStatic[c] /\ ev'.moved = NoMove)
         => (/\ ~ev'.wrote[c]
             /\ lastPulse'[c] = lastPulse[c]
             /\ filteredPulse'[c] = filteredPulse[c]
             /\ isStatic'[c] \/ ev'.accepted[c])]_vars

\* The filter pass has moved the gripper well on its way to 2330 and written
\* to its servo while lift and tilt are static.
C19_Witness ==
    /\ ev.filter
    /\ ev.wrote["gripper"]
    /\ targetPulse["gripper"] = 2330
    /\ filteredPulse["gripper"] > 1500
    /\ isStatic["lift"] /\ isStatic["tilt"]
    /\ ~ev.wrote["lift"] /\ ~ev.wrote["tilt"]

\* C20: an iteration writes to a servo only a value that differs from the
\* last value sent to it by more than PWM_DEADZONE, and the last sent value
\* changes only by such a write.
C20_WritesExceedDeadzone ==
    [][IsLoop => \A c \in Channels :
         /\ ev'.wrote[c] => abs(lastPulse'[c] - lastPulse[c]) > PWM_DEADZONE
         /\ lastPulse'[c] # lastPulse[c] => ev'.wrote[c]]_vars

\* The filter pass has written to the lift servo on its way to a target.
C20_Witness ==
    /\ ev.wrote["lift"]
    /\ ~isStatic["lift"]
    /\ lastPulse["lift"] = filteredPulse["lift"]
    /\ filteredPulse["lift"] # targetPulse["lift"]

\* C21: a filter pass tried less than SERVO_UPDATE_MIN_INTERVAL after the
\* last writing pass does nothing; a pass that writes to a servo sets
\* lastServoCommandTime to the present and nothing else moves that timestamp;
\* so an iteration in the same millisecond as a writing pass writes nothing.
C21_WritingPassesAreSpaced ==
    [][IsLoop =>
         /\ \A a \in RateAges :
               LET s0 == [State EXCEPT !.lastServoCommandAge = a,
                                       !.ev = NoEvents(State)]
               IN  a < SERVO_UPDATE_MIN_INTERVAL
                     => updateFilteredServoPositions(s0) = s0
         /\ (\E c \in Channels : ev'.wrote[c]) => lastServoCommandAge' = 0
         /\ (\A c \in Channels : ~ev'.wrote[c])
              => \E dt \in DtSet :
                    lastServoCommandAge' = Elapse(lastServoCommandAge, dt)
         /\ (Loop(0) /\ lastServoCommandAge < SERVO_UPDATE_MIN_INTERVAL)
              => \A c \in Channels : ~ev'.wrote[c]]_vars

\* An iteration in the millisecond of a writing pass has reached the filter
\* pass with a servo still moving, and the pass has returned at once.
C21_Witness ==
    /\ servosAttached
    /\ ev.control /\ ~ev.filter
    /\ \A c \in Channels : ~ev.accepted[c]
    /\ \E c \in Channels : ~isStatic[c] /\ lastPulse[c] # currentPulse[c]
    /\ lastServoCommandAge = 0

\* C22: two executions of the servo-control pass are never in the same
\* millisecond: when the last iteration ran the pass (it reached the
\* raw-command handling), an iteration with no millis() time elapsed since
\* does not run it again.
C22_PassesAreSpaced ==
    [][(Loop(0) /\ ev.control) => ~ev'.control]_vars

\* C23: the controller writes no command field of the buffer: a loop
\* iteration leaves servoEnable, servoPosition and the three PWM fields as
\* the host wrote them.
C23_ControllerWritesNoCommandField ==
    [][IsLoop => buffer' = buffer]_vars

\* C24: in every iteration of loop(), on every path, updateBuffer() runs
\* once and before any call that reads or writes slave.buffer, and
\* finalizeWrites() runs once, after every call that writes slave.buffer and as
\* the last call of the iteration.
C24_IngestFirstFinalizeLast ==
    /\ ~calls.early /\ ~calls.late
    /\ pc # LoopCalls[1] => calls.ingests = 1 /\ calls.finalizes = 0
    /\ pc = LoopCalls[1] =>
          \/ calls = NoCalls
          \/ calls.ingests = 1 /\ calls.finalizes = 1

\* An iteration has ended in which handleServoControl returned early from its
\* all-static branch.
C24_Witness ==
    /\ pc = LoopCalls[1]
    /\ calls.finalizes = 1
    /\ ~ev.control
    /\ servosAttached
    /\ \A c \in Channels : isStatic[c]

----------------------------------------------------------------------------
(* The other sketches of the repository: what they write to the servos *)

\* The first sketch: its bounds, and the values its moveToPosition writes.
FirstMin(c) == CASE c = "lift" -> 1000 [] c = "tilt" -> 1300 [] OTHER -> 500

FirstMax(c) == CASE c = "lift" -> 1900 [] c = "tilt" -> 1750 [] OTHER -> 2330

FirstWrites(c) ==
    CASE c = "lift" -> {1550, 1000, 1900}
      [] c = "tilt" -> {1500, 1750, 1300}
      [] OTHER -> {500, 2330}

\* The ramp sketch: its bounds, and the initial and preset values of its
\* targets.
RampMin(c) == CASE c = "lift" -> 960 [] c = "tilt" -> 1515 [] OTHER -> 500

RampMax(c) == CASE c = "lift" -> 1630 [] c = "tilt" -> 1900 [] OTHER -> 2400

RampTargets(c) ==
    CASE c = "lift" -> {1550, 1446, 1487, RampMin(c), 1536, 1506}
      [] c = "tilt" -> {1700, 1791, 1789, RampMax(c), 1710, RampMin(c)}
      [] OTHER -> {500}

\* LIFT_SPEED, TILT_SPEED, GRIPPER_SPEED of the ramp sketch.
RampSpeed(c) == IF c = "gripper" THEN 40 ELSE 10

\* One block of smoothServoMovement of the ramp sketch: the new current pulse,
\* which is the value written.
smoothServoMovement(current, target, speed) ==
    LET diff == target - current
    IN  IF abs(diff) <= speed THEN target
        ELSE IF diff > 0 THEN current + speed ELSE current - speed

\* Current and target pulses of the ramp sketch at and near the bounds, and
\* the initial and preset values.
RampSamples(c) ==
    {x \in RampMin(c)..RampMax(c) :
        \/ x - RampMin(c) <= RampSpeed(c) + 1
        \/ RampMax(c) - x <= RampSpeed(c) + 1
        \/ x \in RampTargets(c)}

\* The direct sketch: its bounds, and the initial and preset values that its
\* applyServoPositions writes.
DirectMin(c) == CASE c = "lift" -> 1000 [] c = "tilt" -> 1210 [] OTHER -> 500

DirectMax(c) == CASE c = "lift" -> 1900 [] c = "tilt" -> 1890 [] OTHER -> 2400

DirectWrites(c) ==
    CASE c = "lift" -> {1550, 1000, 1900}
      [] c = "tilt" -> {1500, 1890, 1210}
      [] OTHER -> {500, 2330}

\* What the other sketches write lies within their bounds: the fixed values
\* of the first and the direct sketch (the raw values the direct sketch writes
\* have passed its range test), and each value of the ramp from an in-range
\* pulse to an in-range target.
OtherVariantsWriteInRange ==
    /\ \A c \in Channels : \A x \in FirstWrites(c) :
          FirstMin(c) <= x /\ x <= FirstMax(c)
    /\ \A c \in Channels : \A x \in DirectWrites(c) :
          DirectMin(c) <= x /\ x <= DirectMax(c)
    /\ \A c \in Channels : \A x \in RampTargets(c) :
          RampMin(c) <= x /\ x <= RampMax(c)
    /\ \A c \in Channels : \A current \in RampSamples(c) : \A target \in RampSamples(c) :
          LET x == smoothServoMovement(current, target, RampSpeed(c))
          IN  /\ RampMin(c) <= x /\ x <= RampMax(c)
              /\ abs(target - x) <= abs(target - current)

FilterSamples(c) ==
    {x \in MinBound(c)..MaxBound(c) :
        x - MinBound(c) <= 6 \/ MaxBound(c) - x <= 6 \/ x % 50 = 0}

\* x lies between a and b.
Between(a, x, b) == (a <= x /\ x <= b) \/ (b <= x /\ x <= a)

\* The filter step as a function, for in-bounds filtered and target: it is
\* ((k-1)*filtered + target)/k, the sum fits the 16-bit int, and the result
\* lies between filtered and target, no farther from the target.
FilterStepLaw ==
    \A c \in Channels : \A filtered \in FilterSamples(c) : \A target \in FilterSamples(c) :
        LET x == newFiltered(filtered, target)
        IN  /\ (PWM_FILTER_ALPHA - 1) * filtered + target < 32768
            /\ x = ((PWM_FILTER_ALPHA - 1) * filtered + target) \div PWM_FILTER_ALPHA
            /\ Between(filtered, x, target)
            /\ abs(x - target) <= abs(filtered - target)

C27_FilterRunsInEveryPass ==
    [][(IsLoop /\ ev'.control /\ \E c \in Channels : ~isStatic'[c])
         => (ev'.filter \/ lastServoCommandAge' < SERVO_UPDATE_MIN_INTERVAL)]_vars

\* C28: an iteration that applies an invalid preset code (moveToPosition is
\* called with a code outside 0..5) while every channel is static changes no
\* target, no filtered position and no isStatic flag, and writes to no servo.
C28_InvalidPresetDoesNothing ==
    [][(/\ IsLoop
        /\ \A c \in Channels : isStatic[c]
        /\ ev'.moved # NoMove
        /\ ev'.moved \notin NONE..CAPTURE)
         => /\ targetPulse' = targetPulse
            /\ filteredPulse' = filteredPulse
            /\ isStatic' = isStatic
            /\ \A c \in Channels : ~ev'.wrote[c]]_vars

\* C29: whenever a channel is static, the last value sent to its servo is
\* within PWM_DEADZONE of its target.
C29_StaticMeansSentNearTarget ==
    \A c \in Channels :
        isStatic[c] => abs(targetPulse[c] - lastPulse[c]) <= PWM_DEADZONE

\* The filter has locked a channel at a target that was never sent: the last
\* value sent is another one, within the deadzone.
C29_Witness ==
    \E c \in Channels :
        isStatic[c] /\ lastPulse[c] # targetPulse[c] /\ ev.filter

\* C30: the target of every channel is within the bounds of the channel in
\* every reachable state.
C30_TargetsWithinBounds ==
    \A c \in Channels :
        MinBound(c) <= targetPulse[c] /\ targetPulse[c] <= MaxBound(c)

\* A preset has put the lift target on its lower bound and the tilt target on
\* its upper bound, or a raw value has put the lift target on its upper bound.
C30_Witness ==
    \/ ev.moved = LIFT /\ targetPulse["lift"] = LIFT_MIN /\ targetPulse["tilt"] = TILT_MAX
    \/ ev.accepted["lift"] /\ targetPulse["lift"] = LIFT_MAX

\* One pass of handleServoControl of the first sketch, past its rate limit:
\* the attach flag it leaves and whether it wrote to a servo.  moveToPosition
\* writes for a valid code only.
FirstPass(enable, attached, changed, valid) ==
    LET a == IF enable /\ ~attached THEN TRUE
             ELSE IF ~enable /\ attached THEN FALSE ELSE attached
    IN  [attached |-> a, wrote |-> a /\ changed /\ valid]

\* The same for the ramp sketch: handleServoEnable writes the current pulses
\* on the enable edge, after attach() and before it sets servosAttached;
\* smoothServoMovement writes a channel that is not at its target.
RampPass(enable, attached, moving) ==
    LET edge == enable /\ ~attached
        a    == IF edge THEN TRUE
                ELSE IF ~enable /\ attached THEN FALSE ELSE attached
    IN  [attached |-> a, wrote |-> edge \/ (a /\ moving)]

\* The same for the direct sketch: handlePWMControl writes an accepted raw
\* value, otherwise a pending preset goes through moveToPosition to
\* applyServoPositions.
DirectPass(enable, attached, accepted, pending) ==
    LET a == IF enable /\ ~attached THEN TRUE
             ELSE IF ~enable /\ attached THEN FALSE ELSE attached
    IN  [attached |-> a, wrote |-> a /\ (accepted \/ pending)]

\* In the other sketches a pass that writes to a servo leaves the servos
\* attached.
OtherVariantsWriteAttached ==
    /\ \A e, a, ch, v \in BOOLEAN :
          FirstPass(e, a, ch, v).wrote => FirstPass(e, a, ch, v).attached
    /\ \A e, a, m \in BOOLEAN :
          RampPass(e, a, m).wrote => RampPass(e, a, m).attached
    /\ \A e, a, acc, p \in BOOLEAN :
          DirectPass(e, a, acc, p).wrote => DirectPass(e, a, acc, p).attached

C32_PlayRequestExecutedOnce ==
    /\ buzz.plays \in {buzz.requests, buzz.requests - 1}
    /\ (buzz.plays = buzz.requests - 1) <=> (buzz.playNotes /\ ~buzz.startedPlaying)
    /\ ~buzz.playNotes => ~buzz.startedPlaying

\* The second request was played and cleared.
C32_Witness ==
    buzz.requests = 2 /\ buzz.plays = 2 /\ ~buzz.playNotes


----------------------------------------------------------------------------
(* The browser client: script.js, keyboard_control.js, gamepad_control.js *)

\* The state outside the browser client.
controller == <<buffer, program, hostWrote, saved, hostWrites, pc, calls, buzz>>

\* A handler starts: nothing sent yet.
run(k) == [k EXCEPT !.sent = {}]

send(k, request) == [k EXCEPT !.sent = @ \cup {request}]

\* The requests of the movement buttons.
MoveRequests == {"move_forward", "move_backward", "rotate_left", "rotate_right"}

\* setMotors(left, right); moving: left, right are not both 0.
setMotors(k, moving) ==
    IF k.recent THEN k
    ELSE LET t == [k EXCEPT !.recent = TRUE,
                            !.pollTimers = [quiet |-> 0,
                                            touched |-> @.touched + @.quiet]]
         IN  IF t.block_set_motors THEN t
             ELSE send([t EXCEPT !.block_set_motors = TRUE, !.motors = @ + 1],
                       IF moving /\ ~k.is_paused THEN "motors/l,r"
                       ELSE "motors/0,0")

setMotorsDone(k) == [k EXCEPT !.block_set_motors = FALSE]

\* setServoPWM without the pause check.
setServoPWMIgnoresPause(k) == send(k, "servo/pwm")

setServoPWM(k) == IF k.is_paused THEN k ELSE send(k, "servo/pwm")

\* servoHome, servoHold, servoCapture, servoGrip, servoLift, servoPark.
servoPreset(k) == IF k.is_paused THEN k ELSE send(k, "servo/preset")

stopMovement(k) == send(k, "stop_movement")

togglePause(k) ==
    LET t == [k EXCEPT !.is_paused = ~@]
    IN  IF t.is_paused
          THEN send(send([t EXCEPT !.direct = @ + 1], "pause"), "motors/0,0")
          ELSE send(t, "resume")

poll(k) ==
    LET t == send([k EXCEPT !.statusRequests = @ + 1], "status.json")
    IN  IF t.stop_motors /\ ~t.block_set_motors
          THEN [setMotors(t, FALSE) EXCEPT !.stop_motors = FALSE]
          ELSE t

\* update_status(json); paused: the pause state the server reports.
update_status(k, paused) ==
    [k EXCEPT !.is_paused = paused, !.pollTimers.quiet = @ + 1]

dragTo(k, moving) ==
    IF k.is_paused THEN k ELSE setMotors([k EXCEPT !.stop_motors = FALSE], moving)

\* handleSingleMovement: one request for a lone direction, none for
\* opposite keys.
handleSingleMovement(k) ==
    LET p == k.keys_pressed
    IN  IF "w" \in p /\ "s" \notin p THEN send(k, "move_forward")
        ELSE IF "s" \in p /\ "w" \notin p THEN send(k, "move_backward")
        ELSE IF "a" \in p /\ "d" \notin p THEN send(k, "rotate_left")
        ELSE IF "d" \in p /\ "a" \notin p THEN send(k, "rotate_right")
        ELSE k

updateMovementFromKeys(k) ==
    IF k.keys_pressed = {} THEN [stopMovement(k) EXCEPT !.lastKey = "stop"]
    ELSE IF k.is_paused THEN [stopMovement(k) EXCEPT !.lastKey = "stop"]
    ELSE IF k.keys_pressed \cap {"w", "s"} # {} /\ k.keys_pressed \cap {"a", "d"} # {}
      THEN [setMotors(k, TRUE) EXCEPT !.lastKey = "move"]
    ELSE [handleSingleMovement(k) EXCEPT !.lastKey = "move"]

\* Keys of the keyboard module that are modelled: the movement keys, the
\* space bar, a simple preset and a sequence preset.
SimplePresetKey == "1"
SequencePresetKey == "9"
Keys == MovementKeys \cup {" ", SimplePresetKey, SequencePresetKey}

\* Steps of the sequence of preset 9.
SequenceSteps == 2

handleKeyDown(k, key) ==
    IF k.textFocus THEN k
    ELSE IF key = " " THEN togglePause(k)
    ELSE IF key = SimplePresetKey
      THEN IF ~k.is_paused THEN setServoPWM(k) ELSE k
    ELSE IF key = SequencePresetKey
      THEN IF ~k.is_paused
             THEN [k EXCEPT !.sequenceTimers = @ + SequenceSteps] ELSE k
    ELSE IF key \notin k.keys_pressed
      THEN LET t == [k EXCEPT !.keys_pressed = @ \cup {key}]
           IN  IF ~t.is_paused THEN updateMovementFromKeys(t) ELSE t
    ELSE k

handleKeyUp(k, key) ==
    IF k.textFocus THEN k
    ELSE IF key \in k.keys_pressed
      THEN updateMovementFromKeys([k EXCEPT !.keys_pressed = @ \ {key}])
    ELSE k

\* GamepadControls.emergencyStop
emergencyStop(k) == stopMovement([k EXCEPT !.currentV = FALSE])

\* GamepadControls.update with its processInputs; stick: the left stick is
\* outside the dead zone, dpad: a D-pad button or the right stick is active
\* and the servo interval has passed, macro: a macro button was just pressed.
update(k, stick, dpad, macro) ==
    IF ~k.gamepad \/ k.is_paused THEN k
    ELSE LET m == IF stick \/ k.currentV
                    THEN setMotors([k EXCEPT !.currentV = stick], stick) ELSE k
             d == IF dpad THEN setServoPWM(m) ELSE m
             b == IF macro THEN servoPreset(d) ELSE d
         IN  IF stick \/ k.currentV \/ dpad \/ macro THEN b ELSE emergencyStop(b)

ClientStep(k) == client' = k /\ UNCHANGED controller

\* motor_command_min_interval has passed since the last motor command.
Tick ==
    /\ client.recent
    /\ ClientStep([client EXCEPT !.recent = FALSE])

\* A poll timer fires; motor_command_min_interval has passed when no motor
\* command was issued since the timer was set.
PollTimer ==
    \/ /\ client.pollTimers.quiet > 0
       /\ ClientStep(poll(run([client EXCEPT !.pollTimers.quiet = @ - 1,
                                             !.recent = FALSE])))
    \/ /\ client.pollTimers.touched > 0
       /\ ClientStep(poll(run([client EXCEPT !.pollTimers.touched = @ - 1])))

StatusDone ==
    /\ client.statusRequests > 0
    /\ \E paused \in BOOLEAN :
          ClientStep(update_status(run([client EXCEPT !.statusRequests = @ - 1]),
                                   paused))

StatusFail ==
    /\ client.statusRequests > 0
    /\ ClientStep([client EXCEPT !.statusRequests = @ - 1,
                                 !.statusFailed = TRUE])

MotorsDone ==
    /\ client.motors > 0
    /\ ClientStep(setMotorsDone(run([client EXCEPT !.motors = @ - 1])))

\* A motors request of setMotors fails: no callback runs.
MotorsFail ==
    /\ client.motors > 0
    /\ ClientStep([client EXCEPT !.motors = @ - 1])

\* The motors/0,0 request of togglePause completes.
DirectDone ==
    /\ client.direct > 0
    /\ ClientStep([client EXCEPT !.direct = @ - 1])

\* The pause button.
TogglePause ==
    /\ client.is_paused \/ client.direct < MaxPauseRequests
    /\ ClientStep(togglePause(run(client)))

SetUserID ==
    /\ client.users < MaxSetUser
    /\ ClientStep(send([run(client) EXCEPT !.users = @ + 1,
                                                        !.userRequests = @ + 1],
                       "set_user_id"))

\* The set_user_id request completes; success: it succeeded and the server
\* accepted the id.
UserDone ==
    /\ client.userRequests > 0
    /\ \E success \in BOOLEAN :
          ClientStep([run(client) EXCEPT
                         !.userRequests = @ - 1,
                         !.userTimers = IF success THEN @ + 3 ELSE @])

\* One of the status refreshes of setUserID fires.
UserTimer ==
    /\ client.userTimers > 0
    /\ ClientStep(send([run(client) EXCEPT
                            !.userTimers = @ - 1, !.statusRequests = @ + 1],
                       "status.json"))

\* The movement buttons: mousedown/touchstart and mouseup/mouseleave/touchend.
ButtonPress ==
    \E request \in MoveRequests :
        ClientStep(IF ~client.is_paused THEN send(run(client), request)
                   ELSE run(client))

ButtonRelease == ClientStep(stopMovement(run(client)))

\* The joystick.
MouseDown ==
    ClientStep(IF ~client.is_paused
                 THEN [run(client) EXCEPT !.mouse_dragging = TRUE]
                 ELSE run(client))

MouseMove ==
    \E moving \in BOOLEAN :
        ClientStep(IF client.mouse_dragging /\ ~client.is_paused
                     THEN dragTo(run(client), moving)
                     ELSE run(client))

MouseUp ==
    ClientStep(IF client.mouse_dragging
                 THEN [run(client) EXCEPT !.mouse_dragging = FALSE,
                                                     !.stop_motors = TRUE]
                 ELSE run(client))

TouchMove ==
    \E moving \in BOOLEAN :
        ClientStep(IF ~client.is_paused
                     THEN dragTo(run(client), moving)
                     ELSE run(client))

TouchEnd == ClientStep([run(client) EXCEPT !.stop_motors = TRUE])

\* A servo slider and a servo preset button.
Slider == ClientStep(setServoPWM(run(client)))

PresetButton ==
    ClientStep(IF ~client.is_paused THEN servoPreset(run(client))
               ELSE run(client))

\* A key goes down, or repeats while it is held.
KeyDown ==
    \E key \in Keys :
        /\ key = SequencePresetKey
              => client.sequenceTimers + SequenceSteps <= MaxSequenceTimers
        /\ key = " " => client.is_paused \/ client.direct < MaxPauseRequests
        /\ ClientStep(handleKeyDown(
               [run(client) EXCEPT
                    !.held = IF key \in MovementKeys THEN @ \cup {key} ELSE @],
               key))

KeyUp ==
    \E key \in client.held :
        ClientStep(handleKeyUp([run(client) EXCEPT
                                    !.held = @ \ {key}], key))

\* The focus moves into a text input, or out of it.
Focus == ClientStep([client EXCEPT !.textFocus = ~@])

\* A step of a running preset sequence.
SequenceTimer ==
    /\ client.sequenceTimers > 0
    /\ ClientStep(setServoPWM([run(client) EXCEPT
                                   !.sequenceTimers = @ - 1]))

GamepadConnected ==
    /\ ~client.gamepad
    /\ ClientStep([run(client) EXCEPT !.gamepad = TRUE])

GamepadDisconnected ==
    /\ client.gamepad
    /\ ClientStep(emergencyStop([run(client) EXCEPT
                                     !.gamepad = FALSE]))

GamepadUpdate ==
    \E stick, dpad, macro \in BOOLEAN :
        ClientStep(update(run(client), stick, dpad, macro))

\* Completions and timers.
NetworkNext ==
    \/ Tick \/ PollTimer \/ StatusDone \/ MotorsDone \/ DirectDone

\* The motor path of script.js with failing requests and setUserID.
ClientNext ==
    \/ NetworkNext \/ StatusFail \/ MotorsFail
    \/ TogglePause \/ SetUserID \/ UserDone \/ UserTimer
    \/ MouseDown \/ MouseMove \/ MouseUp \/ TouchMove \/ TouchEnd

ClientSpec == Init /\ [][ClientNext]_vars

\* Every input path of the page.
InputNext ==
    \/ NetworkNext \/ TogglePause
    \/ ButtonPress \/ ButtonRelease
    \/ MouseDown \/ MouseMove \/ MouseUp \/ TouchMove \/ TouchEnd
    \/ Slider \/ PresetButton \/ KeyDown \/ KeyUp \/ SequenceTimer
    \/ GamepadConnected \/ GamepadDisconnected \/ GamepadUpdate

InputSpec == Init /\ [][InputNext]_vars

\* The keyboard module with focus changes and pause.
KeyboardNext ==
    \/ NetworkNext \/ TogglePause \/ KeyDown \/ KeyUp \/ Focus \/ SequenceTimer

KeyboardSpec == Init /\ [][KeyboardNext]_vars

\* Requests that move the robot or a servo.
MotionRequests == MoveRequests \cup {"motors/l,r", "servo/pwm", "servo/preset"}

\* C33: while is_paused is true, no input path of the page (movement buttons,
\* joystick, keyboard, gamepad, servo sliders, servo presets, steps of a
\* preset sequence scheduled before the pause) sends a non-zero motor
\* command, a move or rotate request, a servo PWM request or a servo preset
\* request.
C33_PausedSendsNoMotion ==
    client.is_paused => client.sent \cap MotionRequests = {}

\* A key is released while paused and another is still recorded: the
\* keyboard module sends its stop.
C33_Witness ==
    client.is_paused /\ client.sent = {"stop_movement"} /\ client.keys_pressed # {}


\* C34: at most one motors/ request of the page is in flight at any time,
\* whatever the order of joystick, poll and pause events.
C34_OneMotorsRequestInFlight == client.motors + client.direct <= 1

\* C35: when a motors request sent by setMotors finishes, with success or
\* with failure, block_set_motors is false again.
C35_GuardReleased ==
    [][client'.motors < client.motors => ~client'.block_set_motors]_vars

\* C36: poll() clears stop_motors only when it has sent motors/0,0, so the
\* stop owed after the joystick is released is not lost when setMotors is
\* throttled or blocked.
C36_StopClearedOnlyWhenSent ==
    [][(PollTimer /\ client.stop_motors /\ ~client'.stop_motors)
           => "motors/0,0" \in client'.sent]_vars

\* Pending poll timers plus status requests in flight.
PollingChains ==
    client.pollTimers.quiet + client.pollTimers.touched + client.statusRequests

\* C37: exactly one status-polling chain is active: pending poll timers plus
\* status requests in flight are at most one after any sequence of events,
\* a successful setUserID included, and one as long as no status request
\* has failed.
C37_OnePollingChain ==
    /\ PollingChains <= 1
    /\ ~client.statusFailed => PollingChains = 1

\* C38: when all four movement keys are physically released, keys_pressed
\* records them as released and the last thing the keyboard module issued
\* is a stop, whatever the order of key events, focus changes and pauses.
C38_ReleasedKeysAreStopped ==
    client.held = {} => (client.keys_pressed = {} /\ client.lastKey # "move")

====
